---- MODULE Spec2Model ----
(***************************************************************************)
(* vague-finder (src/index.js): sentence similarity on top of an external  *)
(* feature-extraction pipeline.  The module models the module-level state  *)
(* (PipelineSingleton.instance and model), the library operations of the   *)
(* vagueFinder object as asynchronous calls that suspend at every await of *)
(* the external provider, and the arithmetic of calculateCosineSimilarity  *)
(* on binary floating-point numbers.  The progress variable, which only    *)
(* stores what the pipeline reports and is read by getProgress alone, is   *)
(* left out.                                                               *)
(***************************************************************************)
EXTENDS Integers, Sequences, FiniteSets, TLC

(***************************************************************************)
(* Numbers.  A JavaScript number is a binary floating-point value; the     *)
(* model keeps Prec significant bits (53 in the source) and rounds every   *)
(* inexact operation to nearest, ties to even.  A value is held as an      *)
(* integer count of Unit-ths, so that every value with Prec significant    *)
(* bits between 2^MinExp and 2^(MaxExp+1) is an integer.                   *)
(***************************************************************************)
Prec == 7

MinExp == -4

MaxExp == 2

RECURSIVE Pow2(_)
Pow2(n) == IF n <= 0 THEN 1 ELSE 2 * Pow2(n - 1)

Unit == Pow2(Prec - 1 - MinExp)

Abs(x) == IF x < 0 THEN -x ELSE x

\* a / b rounded to the nearest integer, ties to even (a >= 0, b > 0).
RoundDiv(a, b) ==
    LET fl == a \div b
        r  == a % b
    IN  IF 2 * r < b THEN fl
        ELSE IF 2 * r > b THEN fl + 1
        ELSE IF fl % 2 = 0 THEN fl ELSE fl + 1

\* The binary exponent e of the positive value n / d Unit-ths:
\* 2^e <= n / (d * Unit) < 2^(e+1), clamped to MinExp..MaxExp.
ExpOf(n, d) ==
    IF n < d * Pow2(Prec - 1) THEN MinExp
    ELSE CHOOSE e \in MinExp..MaxExp :
            /\ Pow2(e - MinExp + Prec - 1) * d <= n
            /\ e < MaxExp => n < Pow2(e - MinExp + Prec) * d

\* n / d Unit-ths (n >= 0, d > 0) rounded to Prec significant bits.
RoundSig(n, d) ==
    IF n = 0 THEN 0
    ELSE LET sp == Pow2(ExpOf(n, d) - MinExp)
         IN  RoundDiv(n, d * sp) * sp

\* Number values: a finite number v (in Unit-ths), NaN, or undefined.
Num(v) == [kind |-> "number", v |-> v]

NaN == [kind |-> "NaN", v |-> 0]

Undefined == [kind |-> "undefined", v |-> 0]

\* The largest integer y in lo..hi with y * y <= N, by bisection.
RECURSIVE IntSqrt(_, _, _)
IntSqrt(N, lo, hi) ==
    IF lo >= hi THEN lo
    ELSE LET mid == (lo + hi + 1) \div 2
         IN  IF mid * mid <= N THEN IntSqrt(N, mid, hi) ELSE IntSqrt(N, lo, mid - 1)

\* Math.sqrt of a non-negative finite number x (in Unit-ths), correctly rounded:
\* the grid value nearest to the real square root of x / Unit.
MathSqrt(x) ==
    IF x = 0 THEN 0
    ELSE LET N  == x * Unit          \* (result in Unit-ths)^2
             lo == IntSqrt(N, 0, Pow2(MaxExp + 1) * Unit)
             sp == Pow2(ExpOf(lo, 1) - MinExp)
             dn == (lo \div sp) * sp
             up == dn + sp
             \* compare N with the square of the midpoint (dn + up) / 2
             m2 == (dn + up) * (dn + up)
         IN  IF dn * dn = N THEN dn
             ELSE IF 4 * N < m2 THEN dn
             ELSE IF 4 * N > m2 THEN up
             ELSE IF (dn \div sp) % 2 = 0 THEN dn ELSE up

\* x * y of two finite numbers.
Mul(x, y) ==
    LET s == IF (x < 0) = (y < 0) THEN 1 ELSE -1
    IN  s * RoundSig(Abs(x) * Abs(y), Unit)

\* A division that yields 0 where the divisor is 0.
GuardedDiv(x, y) ==
    IF y = 0 THEN Num(0)
    ELSE LET s == IF (x < 0) = (y < 0) THEN 1 ELSE -1
         IN  Num(s * RoundSig(Abs(x) * Unit, Abs(y)))

\* x / y of two finite numbers: 0 / 0 is NaN.  (x / 0 with x # 0 is an
\* infinity; calculateCosineSimilarity never forms it, since a zero magnitude
\* makes the dot product zero.)
Div(x, y) ==
    IF y = 0 THEN NaN
    ELSE LET s == IF (x < 0) = (y < 0) THEN 1 ELSE -1
         IN  Num(s * RoundSig(Abs(x) * Unit, Abs(y)))

\* The sum over i of a[i] * b[i], as the loop of lines 154-158 accumulates it.
\* The components are small integers, so every product and partial sum is
\* exact (an integer below 2^Prec); the result is in Unit-ths.
RECURSIVE SumProd(_, _, _)
SumProd(a, b, i) ==
    IF i > Len(a) THEN 0 ELSE a[i] * b[i] * Unit + SumProd(a, b, i + 1)

\* The dot product alone, without the division by the magnitudes.
DotProductOnly(embedding1, embedding2) == Num(SumProd(embedding1, embedding2, 1))

calculateCosineSimilarity(embedding1, embedding2) ==
    LET dotProduct == SumProd(embedding1, embedding2, 1)
        magnitude1 == MathSqrt(SumProd(embedding1, embedding1, 1))
        magnitude2 == MathSqrt(SumProd(embedding2, embedding2, 1))
    IN  Div(dotProduct, Mul(magnitude1, magnitude2))

(***************************************************************************)
(* JavaScript values held in arrays.  A string is Str(s); a cache entry is *)
(* an object whose sentenceTwo and embedding properties may each be absent *)
(* (<<>>) or present (<<value>>); a comparison result is an object with a  *)
(* sentenceTwo value and an alike number.                                  *)
(***************************************************************************)
Str(s) == [t |-> "string", s |-> s]

CacheEntry(sentenceTwo, embedding) ==
    [t |-> "object", sentenceTwo |-> sentenceTwo, embedding |-> embedding]

ResultEntry(sentenceTwo, alike) ==
    [t |-> "result", sentenceTwo |-> sentenceTwo, alike |-> alike]

\* The sentences callers pass, the empty string among them.
Sentences == {"", "a", "b"}

\* The external provider: model(sentence, {pooling, normalize}).data, a
\* deterministic function of the sentence.
Embed(sentence) ==
    CASE sentence = "a" -> <<1, 0>>
      [] sentence = "b" -> <<0, 1>>
      [] OTHER          -> <<1, 1>>

\* Longest array a caller passes, and the number of loadModel calls of a run.
MaxLen == 3

MaxLoads == 2

RECURSIVE SeqsUpTo(_, _)
SeqsUpTo(S, n) ==
    IF n = 0 THEN {<<>>}
    ELSE LET shorter == SeqsUpTo(S, n - 1)
         IN  shorter \cup {Append(q, x) : q \in {r \in shorter : Len(r) = n - 1}, x \in S}

\* Lists of sentences, as strings.
Lists == SeqsUpTo({Str(s) : s \in Sentences}, MaxLen)

\* Cache entries a caller holds without having called getCached (restored
\* from storage, or written by hand): well formed, with an all-zero
\* embedding, without sentenceTwo, without embedding.
HandEntries ==
    { CacheEntry(<<"a">>, <<(<<1, 0>>)>>),
      CacheEntry(<<"b">>, <<(<<0, 0>>)>>),
      CacheEntry(<<>>, <<(<<1, 0>>)>>),
      CacheEntry(<<"a">>, <<>>) }

\* The entries of a cache kept in storage since an earlier session, one per
\* sentence; the embedding stored for "z" is all-zero.
StoredEntries ==
    { CacheEntry(<<"a">>, <<(<<1, 0>>)>>),
      CacheEntry(<<"b">>, <<(<<0, 1>>)>>),
      CacheEntry(<<"c">>, <<(<<1, 1>>)>>),
      CacheEntry(<<"z">>, <<(<<0, 0>>)>>) }

\* The arrays that hold entries of the stored cache, each at most once.
StoredArrays ==
    {q \in SeqsUpTo(StoredEntries, Cardinality(StoredEntries)) :
        \A j \in 1..Len(q), k \in 1..Len(q) : j # k => q[j] # q[k]}

HandArrays == SeqsUpTo(HandEntries, MaxLen) \cup StoredArrays

ModelNotLoaded == "Model has not been loaded, use vagueFinder.loadModel()"

MalformedEntry == "Each item in the cachedArray must have a sentenceTwo property"

NotAFunction == "TypeError: model is not a function"

NotIterable == "TypeError: item.embedding is not iterable"

NullEmbedding == "TypeError: Cannot read properties of null"

\* The array a caller holds between calls: none, the result of getCached
\* (source is the list it was made from), or one obtained otherwise.
NotHeld == [by |-> "", source |-> <<>>]

LoadFailures == {"Error: fetch failed"}

UnableToLoad(error) == "Unable to load Model due to " \o error

\* The callers of the library: each runs its calls one after the other, and
\* the calls of different callers may overlap.  Under Spec one caller makes
\* calls, the one of Slots.
Callers == {1, 2}

Slots == {1}

ObjNames == {"arg", "c1", "c2"}

\* The properties of the exported vagueFinder object (lines 475-484).
vagueFinder == {"loadModel", "getProgress", "compareTwoSentences",
                "compareSentenceToArray", "arrayInOrder", "getCached",
                "cachedCompareSentenceToArray", "cachedArrayInOrder"}

NoSuchMethod(name) == "TypeError: vagueFinder." \o name \o " is not a function"

SortingEveryOp == {"compareSentenceToArray", "arrayInOrder",
                   "cachedCompareSentenceToArray", "cachedArrayInOrder"}

\* The operations that sort what they return (lines 261 and 453).
SortedOps == {"arrayInOrder", "cachedArrayInOrder"}

CachedOps == {"cachedCompareSentenceToArray", "cachedArrayInOrder"}

VARIABLES
    instance,      \* PipelineSingleton.instance: 0 (null) or the pipeline promise
    pipelines,     \* the promises pipeline(...) has returned: their states, and
                   \* for a rejected one the loadModel calls made before it failed
    model,         \* the module variable model: 0 (null) or the resolved pipeline
    waiters,       \* loadModel calls suspended at the await, per pipeline promise
    nLoads,        \* loadModel calls made so far
    resolvedWith,  \* the values loadModel calls have assigned to model
    loadErrors,    \* the errors rejected loadModel calls have delivered
    tasks,         \* per slot: the library call in progress or finished
    heap           \* per slot: the arrays the call and its caller hold

vars == <<instance, pipelines, model, waiters, nLoads, resolvedWith,
          loadErrors, tasks, heap>>

loadVars == <<instance, pipelines, model, waiters, nLoads, resolvedWith, loadErrors>>

IdleTask ==
    [op |-> "none", pc |-> "idle", sentence |-> "", sentenceTwo |-> "",
     held |-> NotHeld, numberOfResults |-> 0, array |-> "arg", i |-> 1,
     cache |-> <<>>, emb1 |-> <<>>,
     doesCache2Exist |-> FALSE, status |-> "none", error |-> "",
     alike |-> Undefined, ret |-> "", snapshot |-> <<>>, calls |-> <<>>,
     loaded |-> FALSE]

EmptyObjs == [n \in ObjNames |-> <<>>]

Init ==
    /\ instance = 0
    /\ pipelines = <<>>
    /\ model = 0
    /\ waiters = [p \in 1..(MaxLoads + 1) |-> 0]
    /\ nLoads = 0
    /\ resolvedWith = {}
    /\ loadErrors = {}
    /\ tasks = [t \in Callers |-> IdleTask]
    /\ heap = [t \in Callers |-> EmptyObjs]

(***************************************************************************)
(* loadModel and the pipeline singleton.                                   *)
(***************************************************************************)
\* A getInstance that builds a new pipeline when the one it holds has failed.
RetryingInstance(inst, n) ==
    IF inst = 0 \/ pipelines[inst].state = "rejected" THEN n + 1 ELSE inst

\* getInstance: the promise it returns, given instance and the number n of
\* promises pipeline(...) has returned so far; a result above n is a new one.
\* The test and the assignment run with no await between them.
UnguardedInstance(inst, n) == n + 1

getInstance(inst, n) == IF inst = 0 THEN n + 1 ELSE inst

\* loadModel up to its await.
CallLoadModel ==
    /\ nLoads < MaxLoads
    /\ LET p == getInstance(instance, Len(pipelines))
       IN  /\ instance' = p
           /\ pipelines' = IF p > Len(pipelines)
                           THEN Append(pipelines, [state |-> "pending", reason |-> "", loads |-> 0])
                           ELSE pipelines
           /\ waiters' = [waiters EXCEPT ![p] = @ + 1]
    /\ nLoads' = nLoads + 1
    /\ UNCHANGED <<model, resolvedWith, loadErrors, tasks, heap>>

\* The external runtime finishes building the pipeline.
PipelineFulfil(p) ==
    /\ pipelines[p].state = "pending"
    /\ pipelines' = [pipelines EXCEPT ![p].state = "fulfilled"]
    /\ UNCHANGED <<instance, model, waiters, nLoads, resolvedWith, loadErrors, tasks, heap>>

\* The external runtime fails to build it.
PipelineReject(p, reason) ==
    /\ pipelines[p].state = "pending"
    /\ pipelines' = [pipelines EXCEPT ![p] = [state |-> "rejected", reason |-> reason,
                                              loads |-> nLoads]]
    /\ UNCHANGED <<instance, model, waiters, nLoads, resolvedWith, loadErrors, tasks, heap>>

\* A loadModel call resumes after its await: it assigns model, or rethrows.
LoadResume(p) ==
    /\ waiters[p] > 0
    /\ pipelines[p].state # "pending"
    /\ waiters' = [waiters EXCEPT ![p] = @ - 1]
    /\ IF pipelines[p].state = "fulfilled"
       THEN /\ model' = p
            /\ resolvedWith' = resolvedWith \cup {p}
            /\ UNCHANGED loadErrors
       ELSE /\ loadErrors' = loadErrors \cup {UnableToLoad(pipelines[p].reason)}
            /\ UNCHANGED <<model, resolvedWith>>
    /\ UNCHANGED <<instance, pipelines, nLoads, tasks, heap>>

(***************************************************************************)
(* Arrays: the spread copy, the validation of a cached array, the sort.    *)
(***************************************************************************)
\* array = [...array]: the reference the local variable holds afterwards,
\* given the reference src it held and the fresh array the spread allocates.
AliasRef(src, fresh) == src

SpreadRef(src, fresh) == fresh

\* !x for an optional string property: absent (undefined) or the empty string.
Falsy(x) == x = <<>> \/ x = <<"">>

\* cachedArray.map((item) => ...) of lines 386-396 and 436-446: the error the
\* callback throws at the first item it rejects, "" when it throws none.  An
\* item without a truthy sentenceTwo throws the malformed-entry error; an item
\* that passes has its embedding spread, which throws when it is absent.
NoMapCheck(cachedArray, k) == ""

RECURSIVE MapCheck(_, _)
MapCheck(cachedArray, k) ==
    IF k > Len(cachedArray) THEN ""
    ELSE IF Falsy(cachedArray[k].sentenceTwo) THEN MalformedEntry
    ELSE IF cachedArray[k].embedding = <<>> THEN NotIterable
    ELSE MapCheck(cachedArray, k + 1)

\* (a, b) => b.alike - a.alike
AscendingCompare(a, b) ==
    IF a.alike.kind = "number" /\ b.alike.kind = "number"
    THEN Num(a.alike.v - b.alike.v)
    ELSE NaN

comparefn(a, b) ==
    IF a.alike.kind = "number" /\ b.alike.kind = "number"
    THEN Num(b.alike.v - a.alike.v)
    ELSE NaN

\* Array.prototype.sort's use of the comparator: a NaN result counts as +0.
SortCompare(a, b) ==
    LET v == comparefn(a, b)
    IN  IF v.kind = "NaN" THEN 0 ELSE v.v

\* The comparator is consistent on the array when "compares equal" is
\* transitive on it; a NaN score compares equal to every score.
Consistent(arr) ==
    \A x \in 1..Len(arr), y \in 1..Len(arr), z \in 1..Len(arr) :
        (SortCompare(arr[x], arr[y]) = 0 /\ SortCompare(arr[y], arr[z]) = 0)
            => SortCompare(arr[x], arr[z]) = 0

\* x inserted before the first element that does not sort before it.
RECURSIVE InsertBeforeEqual(_, _)
InsertBeforeEqual(sorted, x) ==
    IF sorted = <<>> THEN <<x>>
    ELSE IF SortCompare(Head(sorted), x) < 0
         THEN <<Head(sorted)>> \o InsertBeforeEqual(Tail(sorted), x)
         ELSE <<x>> \o sorted

\* x inserted behind every element that does not sort after it.
RECURSIVE InsertStable(_, _)
InsertStable(sorted, x) ==
    IF sorted = <<>> THEN <<x>>
    ELSE IF SortCompare(Head(sorted), x) <= 0
         THEN <<Head(sorted)>> \o InsertStable(Tail(sorted), x)
         ELSE <<x>> \o sorted

\* A sort that keeps one element of those that compare equal.
RECURSIVE DistinctSort(_, _)
DistinctSort(arr, k) ==
    IF k = 0 THEN <<>>
    ELSE LET sorted == DistinctSort(arr, k - 1)
         IN  IF \E j \in 1..Len(sorted) : SortCompare(sorted[j], arr[k]) = 0
             THEN sorted
             ELSE InsertStable(sorted, arr[k])

\* The first k elements of arr, sorted: each inserted in turn.
RECURSIVE StableSort(_, _)
StableSort(arr, k) ==
    IF k = 0 THEN <<>> ELSE InsertStable(StableSort(arr, k - 1), arr[k])

Orders(arr) ==
    LET n == Len(arr)
    IN  { [k \in 1..n |-> arr[f[k]]] :
            f \in {g \in [1..n -> 1..n] : \A a \in 1..n : \E b \in 1..n : g[b] = a} }

\* The arrays returnedArray.sort(comparefn) may leave: the stable sort when
\* the comparator is consistent, any order of the elements (the order is
\* implementation-defined) when it is not.
SortOutcomes(arr) ==
    IF Consistent(arr) THEN {StableSort(arr, Len(arr))} ELSE Orders(arr)

(***************************************************************************)
(* classify and the loop of compareSentenceToArray.  A frame is a call's   *)
(* record tk with the arrays objs of its slot; m is the module variable    *)
(* model.  Each operator runs the call to its next await or to its end.    *)
(***************************************************************************)
Settle(f, status, error) ==
    [f EXCEPT !.tk.pc = "done", !.tk.status = status, !.tk.error = error]

\* array[i].sentenceTwo ? array[i].sentenceTwo : array[i]   (line 209)
Candidate(item) ==
    IF item.t = "object" /\ ~Falsy(item.sentenceTwo)
    THEN Str(item.sentenceTwo[1])
    ELSE item

\* array[i].embedding ? array[i].embedding : null   (line 212)
CachedEmbedding(item) ==
    IF item.t = "object" THEN item.embedding ELSE <<>>

\* A cache variable shared by the calls in progress: what another call has
\* stored, when one has.
SharedCache(f) ==
    LET others == {t \in Callers : tasks[t].cache \notin {<<>>, f.tk.cache}}
    IN  IF others = {} THEN f.tk.cache ELSE tasks[CHOOSE t \in others : TRUE].cache

\* cache, the embedding1Cache argument of line 210: the variable line 204
\* declares in the call.
embedding1Cache(f) == f.tk.cache

\* i !== 0, the doesCache1Exist argument of line 211 (i counts from 1 here).
NeverCache1(i) == FALSE

doesCache1Exist(i) == i # 1

RECURSIVE Iterate(_, _)
RECURSIVE AfterEmbedding1(_, _)
RECURSIVE AfterEmbedding2(_, _, _)

\* Lines 206-214 and 107-123: the loop test, then classify up to the
\* embedding of sentenceOne.
Iterate(f, m) ==
    LET tk == f.tk
    IN  IF tk.i > Len(f.objs[tk.array])
        THEN [f EXCEPT !.tk.pc = "done", !.tk.status = "returned", !.tk.ret = tk.array]
        ELSE IF ~tk.doesCache2Exist /\ m = 0 THEN Settle(f, "rejected", ModelNotLoaded)
        ELSE IF doesCache1Exist(tk.i)
             THEN AfterEmbedding1([f EXCEPT !.tk.emb1 = embedding1Cache(f)], m)
        ELSE IF m = 0 THEN Settle(f, "rejected", NotAFunction)
        ELSE [f EXCEPT !.tk.pc = "embed1", !.tk.calls = Append(@, tk.sentence)]

\* Lines 125-132: the embedding of sentenceTwo.
AfterEmbedding1(f, m) ==
    LET tk   == f.tk
        item == f.objs[tk.array][tk.i]
    IN  IF tk.doesCache2Exist THEN AfterEmbedding2(f, CachedEmbedding(item), m)
        ELSE IF m = 0 THEN Settle(f, "rejected", NotAFunction)
        ELSE [f EXCEPT !.tk.pc = "embed2", !.tk.calls = Append(@, Candidate(item).s)]

\* Lines 143-172 and 215-218: the score, the cache of the first iteration,
\* the write of array[i].
AfterEmbedding2(f, embedding2, m) ==
    LET tk   == f.tk
        item == f.objs[tk.array][tk.i]
    IN  IF embedding2 = <<>> \/ tk.emb1 = <<>> THEN Settle(f, "rejected", NullEmbedding)
        ELSE LET alike == calculateCosineSimilarity(tk.emb1[1], embedding2[1])
             IN  Iterate([f EXCEPT
                            !.objs[tk.array][tk.i] = ResultEntry(Candidate(item), alike),
                            !.tk.cache = IF tk.i = 1 THEN tk.emb1 ELSE @,
                            !.tk.i = @ + 1], m)

\* compareSentenceToArray(sentence, array, doesCache2Exist) from its first
\* line, array naming the array passed and fresh the copy line 205 makes.
compareSentenceToArray(f, array, fresh, doesCache2Exist, m) ==
    IF ~doesCache2Exist /\ m = 0 THEN Settle(f, "rejected", ModelNotLoaded)
    ELSE LET local == SpreadRef(array, fresh)
         IN  Iterate([f EXCEPT !.objs[local] = f.objs[array],
                               !.tk.array = local,
                               !.tk.doesCache2Exist = doesCache2Exist,
                               !.tk.i = 1, !.tk.cache = <<>>], m)

(***************************************************************************)
(* The library calls.  A slot is idle (its caller may hold a cached array  *)
(* in "arg"), runs one call, and is idle again once the caller has taken   *)
(* the outcome.                                                            *)
(***************************************************************************)
Frame(t) == [tk |-> tasks[t], objs |-> heap[t]]

\* A call of op begins: the caller's array is "arg".
Begin(t, op, sentence, array) ==
    [tk   |-> [IdleTask EXCEPT !.op = op, !.sentence = sentence,
                               !.held = tasks[t].held, !.status = "pending",
                               !.snapshot = array, !.loaded = (model # 0)],
     objs |-> [EmptyObjs EXCEPT !["arg"] = array]]

\* The state a call leaves when it suspends or ends; the sorted variants
\* sort the array they are about to return (lines 261 and 453).
Commit(t, f) ==
    IF f.tk.pc = "done" /\ f.tk.status = "returned" /\ f.tk.op \in SortedOps
    THEN \E sorted \in SortOutcomes(f.objs[f.tk.ret]) :
            /\ tasks' = [tasks EXCEPT ![t] = f.tk]
            /\ heap' = [heap EXCEPT ![t] = [f.objs EXCEPT ![f.tk.ret] = sorted]]
    ELSE /\ tasks' = [tasks EXCEPT ![t] = f.tk]
         /\ heap' = [heap EXCEPT ![t] = f.objs]

Free(t) == tasks[t].pc = "idle" /\ tasks[t].held.by = ""

Holding(t) == tasks[t].pc = "idle" /\ tasks[t].held.by # ""

\* compareTwoSentences is not async: it throws, or returns at once with the
\* alike it destructured from the promise classify returned, while classify
\* runs on to its first await (lines 310-326).
CallCompareTwoSentences(t, sentenceOne, sentenceTwo) ==
    /\ Free(t)
    /\ "compareTwoSentences" \in vagueFinder
    /\ LET f == Begin(t, "compareTwoSentences", sentenceOne, <<>>)
       IN  IF model = 0
           THEN Commit(t, Settle(f, "threw", ModelNotLoaded))
           ELSE Commit(t, [f EXCEPT !.tk.sentenceTwo = sentenceTwo,
                                    !.tk.status = "returned",
                                    !.tk.alike = Undefined,
                                    !.tk.pc = "embed1",
                                    !.tk.calls = <<sentenceOne>>])
    /\ UNCHANGED loadVars

CallCompareSentenceToArray(t, sentence, array) ==
    /\ Free(t)
    /\ "compareSentenceToArray" \in vagueFinder
    /\ Commit(t, compareSentenceToArray(
                    Begin(t, "compareSentenceToArray", sentence, array),
                    "arg", "c1", FALSE, model))
    /\ UNCHANGED loadVars

\* Lines 249-259.
CallArrayInOrder(t, sentence, array) ==
    /\ Free(t)
    /\ "arrayInOrder" \in vagueFinder
    /\ LET f     == Begin(t, "arrayInOrder", sentence, array)
           local == SpreadRef("arg", "c1")
       IN  IF model = 0
           THEN Commit(t, Settle(f, "rejected", ModelNotLoaded))
           ELSE Commit(t, compareSentenceToArray(
                             [f EXCEPT !.objs[local] = f.objs["arg"]],
                             local, "c2", FALSE, model))
    /\ UNCHANGED loadVars

\* returnedArray[i] = { sentenceTwo: array[i], embedding: embedding } of
\* line 365, embedding being what the provider returned for array[i].
UnembeddedItem(sentence, embedding) == CacheEntry(<<sentence>>, <<>>)

CachedItem(sentence, embedding) == CacheEntry(<<sentence>>, <<embedding>>)

\* Lines 352-360: getCached up to its first await; returnedArray is "c2".
CallGetCached(t, array) ==
    /\ Free(t)
    /\ "getCached" \in vagueFinder
    /\ LET f     == Begin(t, "getCached", "", array)
           local == SpreadRef("arg", "c1")
           g     == [f EXCEPT !.objs[local] = f.objs["arg"], !.tk.array = local,
                              !.tk.ret = "c2"]
       IN  IF model = 0
           THEN Commit(t, Settle(f, "rejected", ModelNotLoaded))
           ELSE IF Len(array) = 0
           THEN Commit(t, [g EXCEPT !.tk.pc = "done", !.tk.status = "returned"])
           ELSE Commit(t, [g EXCEPT !.tk.pc = "embed",
                                    !.tk.calls = <<g.objs[local][1].s>>])
    /\ UNCHANGED loadVars

\* cachedCompareSentenceToArray and cachedArrayInOrder (lines 385-401 and
\* 435-451) on the cached array the caller holds.
CallCached(t, op, sentence) ==
    /\ Holding(t)
    /\ op \in vagueFinder
    /\ LET f     == Begin(t, op, sentence, heap[t]["arg"])
           error == MapCheck(heap[t]["arg"], 1)
       IN  IF error # ""
           THEN Commit(t, Settle(f, "rejected", error))
           ELSE Commit(t, compareSentenceToArray(f, "arg", "c1", TRUE, model))
    /\ UNCHANGED loadVars

\* vagueFinder.getTop(sentence, array, numberOfResults): the exported object
\* has no such property, so the call throws before anything runs.
CallGetTop(t, sentence, array, numberOfResults) ==
    /\ Free(t)
    /\ "getTop" \notin vagueFinder
    /\ Commit(t, Settle([Begin(t, "getTop", sentence, array)
                            EXCEPT !.tk.numberOfResults = numberOfResults],
                        "threw", NoSuchMethod("getTop")))
    /\ UNCHANGED loadVars

\* The provider returns the embedding a call awaits, and the call runs on.
EmbedReturn(t) ==
    LET f  == Frame(t)
        tk == tasks[t]
    IN  /\ tk.pc \in {"embed1", "embed2", "embed"}
        /\ IF tk.op = "compareTwoSentences"
           THEN IF tk.pc = "embed1"
                THEN Commit(t, [f EXCEPT !.tk.pc = "embed2",
                                         !.tk.emb1 = <<Embed(tk.sentence)>>,
                                         !.tk.calls = Append(@, tk.sentenceTwo)])
                ELSE Commit(t, [f EXCEPT !.tk.pc = "done"])
           ELSE IF tk.op = "getCached"
           THEN LET item == heap[t][tk.array][tk.i]
                    g    == [f EXCEPT
                               !.objs["c2"] = Append(@, CachedItem(item.s, Embed(item.s))),
                               !.tk.i = @ + 1]
                IN  IF g.tk.i > Len(g.objs[tk.array])
                    THEN Commit(t, [g EXCEPT !.tk.pc = "done", !.tk.status = "returned"])
                    ELSE Commit(t, [g EXCEPT !.tk.calls = Append(@, g.objs[tk.array][g.tk.i].s)])
           ELSE IF tk.pc = "embed1"
           THEN Commit(t, AfterEmbedding1([f EXCEPT !.tk.emb1 = <<Embed(tk.sentence)>>], model))
           ELSE Commit(t, AfterEmbedding2(
                             f, <<Embed(Candidate(heap[t][tk.array][tk.i]).s)>>, model))
        /\ UNCHANGED loadVars

\* The caller obtains a cached array without calling getCached.
Restore(t, cachedArray) ==
    /\ Free(t)
    /\ tasks' = [tasks EXCEPT ![t].held = [by |-> "restore", source |-> <<>>]]
    /\ heap' = [heap EXCEPT ![t]["arg"] = cachedArray]
    /\ UNCHANGED loadVars

\* The caller keeps the array getCached returned, to pass it to later calls.
Keep(t) ==
    /\ tasks[t].pc = "done" /\ tasks[t].op = "getCached" /\ tasks[t].status = "returned"
    /\ tasks' = [tasks EXCEPT ![t] = [IdleTask EXCEPT
                    !.held = [by |-> "getCached", source |-> tasks[t].snapshot]]]
    /\ heap' = [heap EXCEPT ![t] = [EmptyObjs EXCEPT !["arg"] = heap[t][tasks[t].ret]]]
    /\ UNCHANGED loadVars

\* The caller has taken the outcome of a finished call.
Collect(t) ==
    /\ tasks[t].pc = "done"
    /\ tasks' = [tasks EXCEPT ![t] = [IdleTask EXCEPT !.held = tasks[t].held]]
    /\ heap' = [heap EXCEPT ![t] =
                   IF tasks[t].held.by # "" THEN [EmptyObjs EXCEPT !["arg"] = heap[t]["arg"]]
                   ELSE EmptyObjs]
    /\ UNCHANGED loadVars

\* The caller lets go of the cached array it holds.
Drop(t) ==
    /\ Holding(t)
    /\ tasks' = [tasks EXCEPT ![t] = IdleTask]
    /\ heap' = [heap EXCEPT ![t] = EmptyObjs]
    /\ UNCHANGED loadVars

Next ==
    \/ CallLoadModel
    \/ \E p \in 1..Len(pipelines) : PipelineFulfil(p)
    \/ \E p \in 1..Len(pipelines), r \in LoadFailures : PipelineReject(p, r)
    \/ \E p \in 1..Len(pipelines) : LoadResume(p)
    \/ \E t \in Slots, a \in Sentences, b \in Sentences : CallCompareTwoSentences(t, a, b)
    \/ \E t \in Slots, a \in Sentences, l \in Lists : CallCompareSentenceToArray(t, a, l)
    \/ \E t \in Slots, a \in Sentences, l \in Lists : CallArrayInOrder(t, a, l)
    \/ \E t \in Slots, l \in Lists : CallGetCached(t, l)
    \/ \E t \in Slots, a \in Sentences, l \in Lists, n \in {1, MaxLen} : CallGetTop(t, a, l, n)
    \/ \E t \in Slots, op \in CachedOps, a \in Sentences : CallCached(t, op, a)
    \/ \E t \in Slots : EmbedReturn(t)
    \/ \E t \in Slots, c \in HandArrays : Restore(t, c)
    \/ \E t \in Slots : Keep(t)
    \/ \E t \in Slots : Collect(t)
    \/ \E t \in Slots : Drop(t)

Spec == Init /\ [][Next]_vars

(***************************************************************************)
(* Overlapping calls: the model is loaded, and two callers run uncached    *)
(* comparisons whose awaits interleave.                                    *)
(***************************************************************************)
\* Longest array a caller passes under SpecConc.
MaxConcLen == 2

ConcSentences == {"", "a"}

ConcLists == SeqsUpTo({Str("a"), Str("b")}, MaxConcLen)

\* The state one resolved loadModel call leaves.
InitConc ==
    /\ instance = 1
    /\ pipelines = <<[state |-> "fulfilled", reason |-> "", loads |-> 0]>>
    /\ model = 1
    /\ waiters = [p \in 1..(MaxLoads + 1) |-> 0]
    /\ nLoads = 1
    /\ resolvedWith = {1}
    /\ loadErrors = {}
    /\ tasks = [t \in Callers |-> IdleTask]
    /\ heap = [t \in Callers |-> EmptyObjs]

NextConc ==
    \/ \E t \in Callers, a \in ConcSentences, l \in ConcLists :
          CallCompareSentenceToArray(t, a, l)
    \/ \E t \in Callers, a \in ConcSentences, l \in ConcLists :
          CallArrayInOrder(t, a, l)
    \/ \E t \in Callers : EmbedReturn(t)
    \/ \E t \in Callers : Collect(t)

SpecConc == InitConc /\ [][NextConc]_vars

(***************************************************************************)
(* Properties.                                                             *)
(***************************************************************************)
Done(t) == tasks[t].pc = "done"

Returned(t) == Done(t) /\ tasks[t].status = "returned"

Failed(t) == Done(t) /\ tasks[t].status \in {"threw", "rejected"}

\* The array a finished call returned.
Result(t) == heap[t][tasks[t].ret]

ComparisonOps == {"compareTwoSentences", "compareSentenceToArray", "arrayInOrder",
                  "getCached", "cachedCompareSentenceToArray", "cachedArrayInOrder"}

\* x < y on scores: false when either is NaN.
Less(x, y) == x.kind = "number" /\ y.kind = "number" /\ x.v < y.v

\* C1: every comparison operation invoked while no loadModel call has yet
\* resolved (model is still null) fails with the 'Model has not been loaded'
\* error, whatever its input.
C1_FailsBeforeLoad ==
    \A t \in Slots :
        (tasks[t].op \in ComparisonOps /\ ~tasks[t].loaded)
            => (Failed(t) /\ tasks[t].error = ModelNotLoaded)

\* The uncached compareSentenceToArray(sentence, list) with the model loaded,
\* run to its end: every awaited embedding returns at once.
RECURSIVE Drive(_)
Drive(f) ==
    IF f.tk.pc = "embed1"
    THEN Drive(AfterEmbedding1([f EXCEPT !.tk.emb1 = <<Embed(f.tk.sentence)>>], 1))
    ELSE IF f.tk.pc = "embed2"
    THEN Drive(AfterEmbedding2(
                  f, <<Embed(Candidate(f.objs[f.tk.array][f.tk.i]).s)>>, 1))
    ELSE f

Uncached(sentence, list) ==
    LET tk == [IdleTask EXCEPT !.op = "compareSentenceToArray", !.sentence = sentence,
                               !.status = "pending", !.loaded = TRUE]
        f  == Drive(compareSentenceToArray(
                       [tk |-> tk, objs |-> [EmptyObjs EXCEPT !["arg"] = list]],
                       "arg", "c1", FALSE, 1))
    IN  f.objs[f.tk.ret]

\* C2: with the model loaded, cachedCompareSentenceToArray(s, getCached(L))
\* returns, and its score at every index is the score at that index of
\* compareSentenceToArray(s, L).
C2_CachedScoresEqualUncached ==
    \A t \in Slots :
        (/\ Done(t)
         /\ tasks[t].op = "cachedCompareSentenceToArray"
         /\ tasks[t].held.by = "getCached"
         /\ tasks[t].loaded)
            => /\ Returned(t)
               /\ LET expected == Uncached(tasks[t].sentence, tasks[t].held.source)
                  IN  /\ Len(Result(t)) = Len(expected)
                      /\ \A k \in 1..Len(expected) :
                            Result(t)[k].alike = expected[k].alike

\* The same equivalence for the lists that hold no empty sentence.
CachedScoresEqualUncachedNonEmpty ==
    \A t \in Slots :
        (/\ Done(t)
         /\ tasks[t].op = "cachedCompareSentenceToArray"
         /\ tasks[t].held.by = "getCached"
         /\ tasks[t].loaded
         /\ \A k \in 1..Len(tasks[t].held.source) : tasks[t].held.source[k] # Str(""))
            => /\ Returned(t)
               /\ LET expected == Uncached(tasks[t].sentence, tasks[t].held.source)
                  IN  /\ Len(Result(t)) = Len(expected)
                      /\ \A k \in 1..Len(expected) :
                            Result(t)[k].alike = expected[k].alike

\* x >= y on scores: false when either is NaN.
AtLeast(x, y) == x.kind = "number" /\ y.kind = "number" /\ x.v >= y.v

Descending(arr) ==
    \A k \in 1..(Len(arr) - 1) : AtLeast(arr[k].alike, arr[k + 1].alike)

NoNaN(arr) == \A k \in 1..Len(arr) : arr[k].alike.kind = "number"

\* C3 as stated: the array arrayInOrder or cachedArrayInOrder returns is in
\* descending order of similarity (every entry's score is at least the next
\* entry's), for every input.
C3_SortedForEveryInput ==
    \A t \in Slots :
        (Returned(t) /\ tasks[t].op \in SortedOps) => Descending(Result(t))

\* C3 as amended: the array arrayInOrder or cachedArrayInOrder returns is in
\* descending order of similarity whenever every score in it is a number
\* (no score is NaN).
C3_SortedWhenScoresAreNumbers ==
    \A t \in Slots :
        (Returned(t) /\ tasks[t].op \in SortedOps /\ NoNaN(Result(t)))
            => Descending(Result(t))

\* A sorted variant has returned numbers in an order the input did not have.
C3_Witness ==
    \E t \in Slots :
        /\ Returned(t)
        /\ tasks[t].op \in SortedOps
        /\ NoNaN(Result(t))
        /\ Len(Result(t)) >= 3
        /\ \E k \in 1..Len(Result(t)) :
              Result(t)[k].sentenceTwo # Candidate(tasks[t].snapshot[k])
        /\ Less(Result(t)[3].alike, Result(t)[1].alike)

Min(a, b) == IF a < b THEN a ELSE b

\* C4: getTop(sentence, list, n) with n positive returns exactly
\* min(n, len(list)) entries, in descending order of similarity.
C4_GetTopReturnsTopN ==
    \A t \in Slots :
        (Done(t) /\ tasks[t].op = "getTop" /\ tasks[t].numberOfResults > 0)
            => /\ Returned(t)
               /\ Len(Result(t)) = Min(tasks[t].numberOfResults, Len(tasks[t].snapshot))
               /\ Descending(Result(t))

\* C5: with the model loaded, compareTwoSentences(a, b) returns a and b with
\* alike the cosine similarity of their embeddings.
C5_TwoSentencesAlike ==
    \A t \in Slots :
        (tasks[t].op = "compareTwoSentences" /\ tasks[t].loaded)
            => /\ tasks[t].status = "returned"
               /\ tasks[t].alike =
                     calculateCosineSimilarity(Embed(tasks[t].sentence),
                                               Embed(tasks[t].sentenceTwo))

\* The embedding the i-th candidate of a call is scored with.
CandidateEmbedding(t, k) ==
    LET item == tasks[t].snapshot[k]
    IN  IF tasks[t].doesCache2Exist THEN item.embedding[1] ELSE Embed(item.s)

\* C6: the array compareSentenceToArray or cachedCompareSentenceToArray
\* returns has the length of the input, and its i-th entry carries the i-th
\* candidate sentence and that candidate's score against the query.
C6_PreservesInputOrder ==
    \A t \in Slots :
        (Returned(t)
         /\ tasks[t].op \in {"compareSentenceToArray", "cachedCompareSentenceToArray"})
            => /\ Len(Result(t)) = Len(tasks[t].snapshot)
               /\ \A k \in 1..Len(tasks[t].snapshot) :
                    /\ Result(t)[k].sentenceTwo = Candidate(tasks[t].snapshot[k])
                    /\ Result(t)[k].alike =
                          calculateCosineSimilarity(Embed(tasks[t].sentence),
                                                    CandidateEmbedding(t, k))

\* An unsorted variant has returned three scores that rise along the array.
C6_Witness ==
    \E t \in Slots :
        /\ Returned(t)
        /\ tasks[t].op \in {"compareSentenceToArray", "cachedCompareSentenceToArray"}
        /\ Len(Result(t)) = 3
        /\ Less(Result(t)[1].alike, Result(t)[2].alike)
        /\ Less(Result(t)[2].alike, Result(t)[3].alike)

LacksSentenceTwo(arr) == \E k \in 1..Len(arr) : arr[k].sentenceTwo = <<>>

FailedMalformed(t) ==
    /\ Failed(t)
    /\ tasks[t].error = MalformedEntry
    /\ tasks[t].calls = <<>>
    /\ tasks[t].ret = ""

\* C7 as stated: a cached operation fails with the malformed-cache-entry
\* error whenever any entry of the cached array lacks sentenceTwo, before any
\* embedding call and without a result.
C7_MalformedWheneverEntryLacksSentence ==
    \A t \in Slots :
        (tasks[t].op \in CachedOps /\ LacksSentenceTwo(tasks[t].snapshot))
            => FailedMalformed(t)

\* C7 as amended: a cached operation fails with the malformed-cache-entry
\* error, before any embedding call and without a result, whenever an entry
\* of the cached array lacks sentenceTwo and every entry before it carries an
\* embedding.
C7_MalformedWhenEarlierEntriesHaveEmbedding ==
    \A t \in Slots :
        (/\ tasks[t].op \in CachedOps
         /\ \E k \in 1..Len(tasks[t].snapshot) :
               /\ tasks[t].snapshot[k].sentenceTwo = <<>>
               /\ \A j \in 1..(k - 1) : tasks[t].snapshot[j].embedding # <<>>)
            => FailedMalformed(t)

\* A cached operation called with the model loaded has rejected an array
\* whose last entry, behind two well-formed ones, lacks sentenceTwo.
C7_Witness ==
    \E t \in Slots :
        /\ tasks[t].op \in CachedOps
        /\ tasks[t].loaded
        /\ Len(tasks[t].snapshot) = 3
        /\ tasks[t].snapshot[3].sentenceTwo = <<>>
        /\ \A j \in 1..2 : MapCheck(<<tasks[t].snapshot[j]>>, 1) = ""
        /\ FailedMalformed(t)

\* C8: however loadModel calls interleave, pipeline(...) is called at most
\* once, every suspended call awaits that one promise, and every call that
\* resolves has assigned that one pipeline to model.
C8_PipelineBuiltOnce ==
    /\ Len(pipelines) <= 1
    /\ \A p \in DOMAIN waiters : waiters[p] > 0 => p = instance
    /\ resolvedWith \subseteq {instance}
    /\ model \in {0, instance}

\* Two loadModel calls are suspended at once, and the pipeline is still loading.
C8_Witness ==
    /\ instance # 0
    /\ waiters[instance] >= 2
    /\ pipelines[instance].state = "pending"

FrameOps == {"compareSentenceToArray", "arrayInOrder", "getCached",
             "cachedCompareSentenceToArray", "cachedArrayInOrder"}

\* C9: from the call on, through every suspension and after the call has
\* returned or failed, the array the caller passed holds what it held when
\* the call was made.
C9_InputUnaltered ==
    \A t \in Slots :
        tasks[t].op \in FrameOps => heap[t]["arg"] = tasks[t].snapshot

\* A sorted variant has returned an array whose order differs from the input's.
C9_Witness ==
    \E t \in Slots :
        /\ Returned(t)
        /\ tasks[t].op \in SortedOps
        /\ Len(Result(t)) >= 2
        /\ Result(t)[1].sentenceTwo # Candidate(tasks[t].snapshot[1])

\* C10: once the pipeline construction has failed, every loadModel call that
\* has settled was rejected with 'Unable to load Model due to <reason>', model
\* is still null, and every comparison invoked fails with the
\* 'Model has not been loaded' error.
C10_FailedLoadLeavesModelUnavailable ==
    \A p \in 1..Len(pipelines) :
        pipelines[p].state = "rejected"
            => /\ model = 0
               /\ resolvedWith = {}
               /\ loadErrors \subseteq {UnableToLoad(pipelines[p].reason)}
               /\ \A t \in Slots :
                     tasks[t].op \in ComparisonOps
                        => (Failed(t) /\ tasks[t].error = ModelNotLoaded)

\* The part of C10 about loadModel itself.
FailedLoadRejects ==
    \A p \in 1..Len(pipelines) :
        pipelines[p].state = "rejected"
            => /\ model = 0
               /\ resolvedWith = {}
               /\ loadErrors \subseteq {UnableToLoad(pipelines[p].reason)}
               /\ (waiters[p] = 0 /\ nLoads > 0)
                     => loadErrors = {UnableToLoad(pipelines[p].reason)}
               /\ \A t \in Slots :
                     tasks[t].op \in ComparisonOps \ CachedOps
                        => (Failed(t) /\ tasks[t].error = ModelNotLoaded)

\* The sentences of a list of strings, in order.
SentencesOf(list) == [k \in 1..Len(list) |-> list[k].s]

\* C11: with the model loaded, getCached(list) returns an array of the length
\* of list whose i-th entry is {sentenceTwo: list[i], embedding: the embedding
\* of list[i]}, and it has called the embedding provider exactly once per
\* element of list, in order.
C11_GetCachedEmbedsEachOnce ==
    \A t \in Slots :
        (tasks[t].op = "getCached" /\ tasks[t].loaded)
            => /\ ~Failed(t)
               /\ Done(t) =>
                    /\ Len(Result(t)) = Len(tasks[t].snapshot)
                    /\ \A k \in 1..Len(tasks[t].snapshot) :
                          Result(t)[k] =
                             CacheEntry(<<tasks[t].snapshot[k].s>>,
                                        <<Embed(tasks[t].snapshot[k].s)>>)
                    /\ tasks[t].calls = SentencesOf(tasks[t].snapshot)

\* getCached has returned the cache of three sentences, two of them different.
C11_Witness ==
    \E t \in Slots :
        /\ Returned(t)
        /\ tasks[t].op = "getCached"
        /\ Len(Result(t)) = 3
        /\ Result(t)[1].embedding # Result(t)[3].embedding
        /\ Len(tasks[t].calls) = 3

UnsortedOps == {"compareSentenceToArray", "cachedCompareSentenceToArray"}

NonZero(v) == \E k \in 1..Len(v) : v[k] # 0

\* The candidates of a returned call whose embedding is the query's own,
\* a non-zero vector v: their score is calculateCosineSimilarity(v, v).
SelfScored(t) ==
    IF Returned(t) /\ tasks[t].op \in UnsortedOps
    THEN {k \in 1..Len(tasks[t].snapshot) :
             /\ CandidateEmbedding(t, k) = Embed(tasks[t].sentence)
             /\ NonZero(Embed(tasks[t].sentence))}
    ELSE {}

\* 2^-Prec, the unit roundoff, in Unit-ths.
Roundoff == Pow2(-1 - MinExp)

\* The non-zero vectors of two and three components -1, 0 or 1, and the
\* similarity of each with itself.
SmallVectors ==
    {v \in [1..2 -> -1..1] \cup [1..3 -> -1..1] : NonZero(v)}

SelfSimilarity == [v \in SmallVectors |-> calculateCosineSimilarity(v, v)]

WithinRounding(v, alike) ==
    LET squares == SumProd(v, v, 1)
    IN  /\ alike.kind = "number"
        /\ Abs(alike.v - Unit) <= 4 * Roundoff
        /\ Mul(MathSqrt(squares), MathSqrt(squares)) = squares => alike.v = Unit

SmallVectorsGiveOne == \A v \in SmallVectors : SelfSimilarity[v] = Num(Unit)

SmallVectorsWithinRounding ==
    \A v \in SmallVectors : WithinRounding(v, SelfSimilarity[v])

UncachedOps == {"compareSentenceToArray", "arrayInOrder"}

\* The embedding calls an uncached comparison of sentence with list makes:
\* the query, then every candidate in index order.
ExpectedCalls(sentence, list) == <<sentence>> \o SentencesOf(list)

\* The candidates of the call's own array that have been scored: the
\* embeddings of sentenceTwo that have come back.
Scored(t) ==
    Cardinality({k \in 1..Len(heap[t][tasks[t].array]) :
                    heap[t][tasks[t].array][k].t = "result"})

\* C13: within one uncached compareSentenceToArray call (alone or inside
\* arrayInOrder) on n >= 1 candidates with the model loaded, the embedding
\* calls issued so far are a prefix of: the query, then each candidate in
\* index order; a call is issued only when every earlier one has returned;
\* and the finished call has issued exactly n + 1 of them.
C13_EmbeddingCallsSequential ==
    \A t \in Slots :
        (/\ tasks[t].op \in UncachedOps
         /\ tasks[t].loaded
         /\ Len(tasks[t].snapshot) >= 1)
            => LET expected == ExpectedCalls(tasks[t].sentence, tasks[t].snapshot)
                   issued   == Len(tasks[t].calls)
               IN  /\ ~Failed(t)
                   /\ issued <= Len(expected)
                   /\ tasks[t].calls = SubSeq(expected, 1, issued)
                   /\ tasks[t].pc = "embed1" => (issued = 1 /\ Scored(t) = 0)
                   /\ tasks[t].pc = "embed2" => issued = Scored(t) + 2
                   /\ Done(t) => (issued = Len(tasks[t].snapshot) + 1
                                  /\ Scored(t) = Len(tasks[t].snapshot))

\* An uncached comparison of a query with three candidates, the query among
\* them, awaits the embedding of the last candidate.
C13_Witness ==
    \E t \in Slots :
        /\ tasks[t].op \in UncachedOps
        /\ tasks[t].pc = "embed2"
        /\ Len(tasks[t].calls) = 4
        /\ \E k \in 1..3 : tasks[t].snapshot[k].s = tasks[t].sentence

\* C14: every cachedCompareSentenceToArray or cachedArrayInOrder call against
\* a getCached result with n >= 1 entries makes exactly one embedding call,
\* for the query sentence, and none for any candidate.
C14_CachedCallsEmbedQueryOnly ==
    \A t \in Slots :
        (/\ tasks[t].op \in CachedOps
         /\ tasks[t].held.by = "getCached"
         /\ Len(tasks[t].snapshot) >= 1)
            => tasks[t].calls = <<tasks[t].sentence>>

\* The same for the getCached results that hold no empty sentence.
CachedCallsEmbedQueryOnlyNonEmpty ==
    \A t \in Slots :
        (/\ tasks[t].op \in CachedOps
         /\ tasks[t].held.by = "getCached"
         /\ Len(tasks[t].snapshot) >= 1
         /\ \A k \in 1..Len(tasks[t].snapshot) : tasks[t].snapshot[k].sentenceTwo # <<"">>)
            => /\ tasks[t].calls = <<tasks[t].sentence>>
               /\ ~Failed(t)

\* No cached call embeds a candidate, whatever the cached array.
CandidatesNeverEmbedded ==
    \A t \in Slots :
        tasks[t].op \in CachedOps => tasks[t].calls \in {<<>>, <<tasks[t].sentence>>}

\* What the unsorted variant returns for the inputs of a returned call: at
\* every index the candidate and its score against the query.
Unsorted(t) ==
    [k \in 1..Len(tasks[t].snapshot) |->
        ResultEntry(Candidate(tasks[t].snapshot[k]),
                    calculateCosineSimilarity(Embed(tasks[t].sentence),
                                              CandidateEmbedding(t, k)))]

\* The entries of arr whose score is the number alike, in their order in arr.
Tied(arr, alike) ==
    LET SameScore(e) == e.alike = alike
    IN  SelectSeq(arr, SameScore)

TiesInInputOrder(t) ==
    \A k \in 1..Len(Unsorted(t)) :
        Unsorted(t)[k].alike.kind = "number"
            => Tied(Result(t), Unsorted(t)[k].alike) = Tied(Unsorted(t), Unsorted(t)[k].alike)

\* C15 as stated: in the array arrayInOrder or cachedArrayInOrder returns,
\* the candidates with equal scores are in their relative input order.
C15_TiesKeepInputOrder ==
    \A t \in Slots :
        (Returned(t) /\ tasks[t].op \in SortedOps) => TiesInInputOrder(t)

\* C15 as amended: in the array arrayInOrder or cachedArrayInOrder returns,
\* the candidates with equal scores are in their relative input order
\* whenever every score in the array is a number (no score is NaN).
C15_TiesKeepInputOrderWhenScoresAreNumbers ==
    \A t \in Slots :
        (Returned(t) /\ tasks[t].op \in SortedOps /\ NoNaN(Result(t)))
            => TiesInInputOrder(t)

\* A sorted variant has moved a higher score in front of two different
\* candidates with equal scores.
C15_Witness ==
    \E t \in Slots :
        /\ Returned(t)
        /\ tasks[t].op \in SortedOps
        /\ NoNaN(Result(t))
        /\ Len(Result(t)) >= 3
        /\ Result(t) # Unsorted(t)
        /\ \E j \in 1..Len(Result(t)), k \in 1..Len(Result(t)) :
              /\ j < k
              /\ Result(t)[j].alike = Result(t)[k].alike
              /\ Result(t)[j].sentenceTwo # Result(t)[k].sentenceTwo

\* The candidates of a call whose stored embedding is all-zero.
ZeroCandidates(t) ==
    {k \in 1..Len(tasks[t].snapshot) : ~NonZero(CandidateEmbedding(t, k))}

\* calculateCosineSimilarity with an all-zero vector on either side, against
\* every vector of two components -1, 0 or 1.
ZeroSimilarities ==
    {calculateCosineSimilarity(<<0, 0>>, v) : v \in [1..2 -> -1..1]}
        \cup {calculateCosineSimilarity(v, <<0, 0>>) : v \in [1..2 -> -1..1]}

\* C16: when either vector is all-zero, calculateCosineSimilarity yields NaN;
\* the comparison raises no error and returns NaN, which is no number in
\* [-1, 1], as the score of that candidate.
C16_ZeroVectorScoresNaN ==
    /\ ZeroSimilarities = {NaN}
    /\ \A t \in Slots :
          (/\ tasks[t].op \in CachedOps
           /\ tasks[t].loaded
           /\ MapCheck(tasks[t].snapshot, 1) = "")
              => /\ ~Failed(t)
                 /\ (Returned(t) /\ tasks[t].op \in UnsortedOps)
                       => \A k \in ZeroCandidates(t) : Result(t)[k].alike = NaN
                 /\ (Returned(t) /\ tasks[t].op \in SortedOps)
                       => \A k \in ZeroCandidates(t) :
                             \E j \in 1..Len(Result(t)) :
                                Result(t)[j] =
                                   ResultEntry(Candidate(tasks[t].snapshot[k]), NaN)

\* A cached comparison has returned the score NaN for a candidate whose
\* embedding is all-zero, next to a number for another candidate.
C16_Witness ==
    \E t \in Slots :
        /\ Returned(t)
        /\ tasks[t].op \in CachedOps
        /\ \E k \in ZeroCandidates(t) :
              \E j \in 1..Len(Result(t)) :
                 Result(t)[j] = ResultEntry(Candidate(tasks[t].snapshot[k]), NaN)
        /\ \E j \in 1..Len(Result(t)) : Result(t)[j].alike.kind = "number"

\* What a returned uncached call returns when it runs alone.
Alone(t) ==
    IF tasks[t].op \in SortedOps
    THEN StableSort(Unsorted(t), Len(Unsorted(t)))
    ELSE Unsorted(t)

\* C17: however the embedding awaits of two compareSentenceToArray or
\* arrayInOrder calls interleave, neither call fails, the query embedding a
\* call holds and reuses for the candidates after the first is the embedding
\* of its own query sentence, and each call returns what it returns alone.
C17_InterleavedCallsDoNotInterfere ==
    \A t \in Callers :
        tasks[t].op \in UncachedOps
            => /\ ~Failed(t)
               /\ tasks[t].emb1 \in {<<>>, <<Embed(tasks[t].sentence)>>}
               /\ tasks[t].cache \in {<<>>, <<Embed(tasks[t].sentence)>>}
               /\ Returned(t) => Result(t) = Alone(t)

\* Two calls with different queries are both suspended at the embedding of
\* their second candidate, each holding the query embedding it reuses.
C17_Witness ==
    /\ \A t \in Callers :
          /\ tasks[t].op \in UncachedOps
          /\ tasks[t].pc = "embed2"
          /\ tasks[t].i = 2
          /\ tasks[t].cache # <<>>
    /\ tasks[1].sentence # tasks[2].sentence

\* What holds in every state in which the pipeline construction has failed.
FailedForGood ==
    \A p \in 1..Len(pipelines) :
        pipelines[p].state = "rejected"
            => /\ instance = p
               /\ Len(pipelines) = 1
               /\ model = 0
               /\ resolvedWith = {}
               /\ loadErrors \subseteq {UnableToLoad(pipelines[p].reason)}
               /\ (waiters[p] = 0 /\ nLoads > pipelines[p].loads)
                     => loadErrors = {UnableToLoad(pipelines[p].reason)}

\* What every step keeps once the pipeline construction has failed.
StaysFailed ==
    \A p \in 1..Len(pipelines) :
        pipelines[p].state = "rejected"
            => /\ pipelines' = pipelines
               /\ instance' = instance
               /\ model' = 0

\* C18: once the pipeline construction has failed, the singleton keeps the
\* failed promise for good: no step replaces it or starts a new construction,
\* every loadModel call made afterwards is rejected with the same
\* 'Unable to load Model' error, and model stays null.
C18_FailedLoadIsPermanent == []FailedForGood /\ [][StaysFailed]_vars

\* A loadModel call made after the pipeline construction failed has been
\* rejected, and no second construction was started.
C18_Witness ==
    /\ Len(pipelines) = 1
    /\ pipelines[1].state = "rejected"
    /\ nLoads > pipelines[1].loads
    /\ waiters[1] = 0
    /\ loadErrors = {UnableToLoad(pipelines[1].reason)}

\* How many times arr holds the entry e.
Count(arr, e) == Cardinality({k \in 1..Len(arr) : arr[k] = e})

IsPermutation(a, b) ==
    /\ Len(a) = Len(b)
    /\ \A k \in 1..Len(a) : Count(a, a[k]) = Count(b, a[k])

\* C19: the array arrayInOrder (cachedArrayInOrder) returns is a permutation
\* of the array compareSentenceToArray (cachedCompareSentenceToArray) returns
\* for the same inputs: the same length, and every sentence/score entry as
\* many times as there.
C19_SortedIsPermutationOfUnsorted ==
    \A t \in Slots :
        (Returned(t) /\ tasks[t].op \in SortedOps)
            => IsPermutation(Result(t), Unsorted(t))

\* A sorted variant has reordered three entries, two of them the same
\* sentence with the same score.
C19_Witness ==
    \E t \in Slots :
        /\ Returned(t)
        /\ tasks[t].op \in SortedOps
        /\ Len(Result(t)) = 3
        /\ Result(t) # Unsorted(t)
        /\ \E k \in 1..3 : Count(Result(t), Result(t)[k]) = 2
====
